---- MODULE Spec2Model ----
(***************************************************************************)
(* GeometrySmart (src/App.tsx): the sketchpad (SketchpadView), the hand-   *)
(* over of the emitted ProblemContext (App.handleAnalyze) and the tutoring *)
(* session (WorkspaceView, retrieveContext).                               *)
(*                                                                         *)
(* Strings of the program are TLA+ strings; SubSeq, Head, Tail, Len and \o *)
(* work on them character by character.                                    *)
(*                                                                         *)
(* SketchSpec : the sketchpad up to the mount of the workspace.            *)
(* ChatSpec   : one mounted workspace (tutoring session).                  *)
(* ChatLive   : ChatSpec with the fairness of timers and of the remote     *)
(*              stream.                                                    *)
(***************************************************************************)
EXTENDS Integers, Sequences, FiniteSets, TLC

(***************************************************************************)
(* Bounds of the model.                                                    *)
(***************************************************************************)
\* committed curves kept on the canvas
MaxPaths == 2
\* points of a stroke handed to the smoother
SmoothLen == 4
\* points of one in-progress stroke
MaxPoints == 3
\* sends accepted in one session
MaxTurns == 2

\* pointer samples delivered by the canvas: two of them exactly THRESHOLD
\* apart, the third closer than that to both
Points == { <<0, 0>>, <<0, 4>>, <<1, 2>> }
\* e.buttons of a pointermove
Buttons == { 0, 1 }
\* texts the user types into the input field
InputTexts == { "", "  ", "What is the volume?" }
\* replies the remote chat service streams, fragment by fragment; a
\* fragment may carry no text
Replies == { <<"Vol", "", "ume">> }

(***************************************************************************)
(* Types (src/App.tsx 35-42).                                              *)
(***************************************************************************)
GeometryType == { "default", "cube", "pyramid", "frustum" }

VARIABLES
  \* SketchpadView state (943-947) and its pending setTimeout closures
  paths, currentPoints, isSolving, showRecognition, selectedTemplate,
  completeTimers,
  \* App state (1370-1372) and the pending closures of handleAnalyze
  view, loading, problemContext, analyzeTimers,
  \* WorkspaceView state (1158-1163) and the running handleSendMessage calls
  messages, inputText, isTyping, isRetrieving, chatSessionRef, turns,
  \* observable history: contexts handed to onComplete, prompts handed to
  \* the remote chat, number of sends accepted, number of remote calls that
  \* failed
  emitted, sentPrompts, nTurns, failed,
  \* the sketchpad or App event that ran last, with the kind it was given
  lastOp

sketchVars == << paths, currentPoints, isSolving, showRecognition,
                 selectedTemplate, completeTimers >>
appVars    == << view, loading, problemContext, analyzeTimers >>
chatVars   == << messages, inputText, isTyping, isRetrieving, chatSessionRef,
                 turns, sentPrompts, nTurns >>
vars       == << sketchVars, appVars, chatVars, emitted, failed, lastOp >>

(***************************************************************************)
(* String helpers: the JavaScript string methods the program uses.         *)
(***************************************************************************)
\* String.prototype.includes
Includes(s, sub) ==
  \E i \in 1..(Len(s) - Len(sub) + 1) : SubSeq(s, i, i + Len(sub) - 1) = sub

UpperCase == "ABCDEFGHIJKLMNOPQRSTUVWXYZ"
LowerCase == "abcdefghijklmnopqrstuvwxyz"

\* toLowerCase leaving every character as it is
LowerChar_Identity(c) == c

LowerChar(c) ==
  IF \E i \in 1..26 : SubSeq(UpperCase, i, i) = c
  THEN LET i == CHOOSE j \in 1..26 : SubSeq(UpperCase, j, j) = c
       IN  SubSeq(LowerCase, i, i)
  ELSE c

RECURSIVE ToLowerCase(_)
\* String.prototype.toLowerCase
ToLowerCase(s) ==
  IF s = "" THEN "" ELSE LowerChar(Head(s)) \o ToLowerCase(Tail(s))

IsSpace(c) == c \in { " ", "\t", "\n", "\r" }

RECURSIVE TrimStart(_)
TrimStart(s) ==
  IF s = "" THEN ""
  ELSE IF IsSpace(Head(s)) THEN TrimStart(Tail(s)) ELSE s

RECURSIVE TrimEnd(_)
TrimEnd(s) ==
  IF s = "" THEN ""
  ELSE IF IsSpace(SubSeq(s, Len(s), Len(s)))
       THEN TrimEnd(SubSeq(s, 1, Len(s) - 1))
       ELSE s

\* String.prototype.trim
Trim(s) == TrimEnd(TrimStart(s))

RECURSIVE JoinWith(_, _)
\* Array.prototype.join
JoinWith(seq, sep) ==
  IF seq = <<>> THEN ""
  ELSE IF Len(seq) = 1 THEN seq[1]
  ELSE seq[1] \o sep \o JoinWith(Tail(seq), sep)

\* filter keeping every element
FilterSeq_KeepsAll(seq, sub) == seq

\* Array.prototype.filter
RECURSIVE FilterSeq(_, _)
FilterSeq(seq, sub) ==
  IF seq = <<>> THEN <<>>
  ELSE IF Includes(seq[1], sub)
       THEN <<seq[1]>> \o FilterSeq(Tail(seq), sub)
       ELSE FilterSeq(Tail(seq), sub)

Digits == "0123456789"

RECURSIVE NatToString(_)
\* Number to string, for the non-negative integers of the canvas
NatToString(n) ==
  IF n < 10 THEN SubSeq(Digits, n + 1, n + 1)
  ELSE NatToString(n \div 10) \o SubSeq(Digits, (n % 10) + 1, (n % 10) + 1)

\* Number.prototype.toFixed(2) of h/2, h a non-negative integer
ToFixed2Halves(h) ==
  NatToString(h \div 2) \o (IF h % 2 = 0 THEN ".00" ELSE ".50")

(***************************************************************************)
(* Knowledge base and context retrieval (54-113).  The two characters      *)
(* outside Latin-1 are spelled out: the root sign as sqrt, the Greek pi as  *)
(* pi.                                                                     *)
(***************************************************************************)
GEOMETRY_KNOWLEDGE_BASE ==
  [ cube |->
      [ definition |-> "A regular hexahedron with 6 equal square faces.",
        formulas   |-> << "Volume = s³ (where s is side length)",
                          "Surface Area = 6s²",
                          "Space Diagonal = ssqrt3",
                          "Face Diagonal = ssqrt2" >>,
        properties |-> << "12 Edges", "8 Vertices", "6 Faces",
                          "All angles are 90°" >> ],
    pyramid |->
      [ definition |-> "A polyhedron with a polygonal base and triangular faces that meet at a point (apex).",
        formulas   |-> << "Volume = (1/3) × Base Area × Height",
                          "Slant Height² = Height² + (Base/2)² (for square pyramid)",
                          "Total Surface Area = Base Area + Lateral Area" >>,
        properties |-> << "The height is the perpendicular distance from apex to base",
                          "Slant height is the height of the triangular face" >> ],
    frustum |->
      [ definition |-> "The portion of a cone or pyramid that remains after its upper part has been cut off by a plane parallel to its base.",
        formulas   |-> << "Volume (Cone Frustum) = (1/3)pih(R² + r² + Rr)",
                          "Lateral Area = pi(R + r)s (where s is slant height)",
                          "Slant Height s = sqrt((R-r)² + h²)" >>,
        properties |-> << "Two parallel bases (top and bottom)",
                          "Height is perpendicular distance between bases" >> ],
    default |->
      [ definition |-> "A complex or general geometric shape.",
        formulas   |-> << "Volume usually depends on decomposing the shape." >>,
        properties |-> << "Check for symmetry",
                          "Identify basic components (spheres, cylinders, etc.)" >> ] ]

\* the lookup always taking the default entry
KnowledgeFor_AlwaysDefault(type) == GEOMETRY_KNOWLEDGE_BASE["default"]

\* GEOMETRY_KNOWLEDGE_BASE[type] || GEOMETRY_KNOWLEDGE_BASE.default
KnowledgeFor(type) ==
  IF type \in DOMAIN GEOMETRY_KNOWLEDGE_BASE
  THEN GEOMETRY_KNOWLEDGE_BASE[type]
  ELSE GEOMETRY_KNOWLEDGE_BASE["default"]

\* the lines pushed onto retrievedInfo, in the order of the code
RetrievedInfo(query, type) ==
  LET knowledge == KnowledgeFor(type)
      q  == ToLowerCase(query)
      r0 == << "Definition: " \o knowledge.definition >>
      r1 == IF Includes(q, "volume") \/ Includes(q, "space")
               \/ Includes(q, "capacity")
            THEN Append(r0, "Relevant Formulas: "
                   \o JoinWith(FilterSeq(knowledge.formulas, "Volume"), "; "))
            ELSE r0
      r2 == IF Includes(q, "area") \/ Includes(q, "surface")
            THEN Append(r1, "Relevant Formulas: "
                   \o JoinWith(FilterSeq(knowledge.formulas, "Area"), "; "))
            ELSE r1
      r3 == IF Includes(q, "diagonal") \/ Includes(q, "height")
               \/ Includes(q, "slant")
            THEN Append(r2, "Properties/Other Formulas: "
                   \o JoinWith(knowledge.formulas, "; "))
            ELSE r2
  IN  IF Len(r3) = 1
      THEN Append(r3, "Key Properties: "
             \o JoinWith(knowledge.properties, "; "))
      ELSE r3

retrieveContext(query, type) == JoinWith(RetrievedInfo(query, type), "\n")

(***************************************************************************)
(* Shape templates and stroke smoothing (877-899).                         *)
(***************************************************************************)
TEMPLATES ==
  [ CUBE    |-> "M 150 100 L 236 150 L 236 250 L 150 300 L 64 250 L 64 150 L 150 100 Z M 150 100 L 150 200 M 150 200 L 64 250 M 150 200 L 236 250",
    PYRAMID |-> "M 150 60 L 70 200 L 150 250 L 230 200 Z M 150 60 L 150 250",
    FRUSTUM |-> "M 100 100 L 200 100 L 220 250 L 80 250 Z M 100 100 Q 150 80 200 100 M 100 100 Q 150 120 200 100 M 80 250 Q 150 270 220 250" ]

\* the curve and the kind each template button passes to addTemplate
TemplateButtons ==
  { << TEMPLATES.CUBE, "cube" >>, << TEMPLATES.PYRAMID, "pyramid" >>,
    << TEMPLATES.FRUSTUM, "frustum" >> }

\* points.map(p => p.join(' '))
PointStrings(points) ==
  [ i \in 1..Len(points) |->
      NatToString(points[i][1]) \o " " \o NatToString(points[i][2]) ]

RECURSIVE QuadSegments(_, _)
\* the loop of getSmoothedPath from index i (1-based: interior points are
\* 2..Len-1)
QuadSegments(points, i) ==
  IF i > Len(points) - 1 THEN ""
  ELSE LET cp   == points[i]
           next == points[i + 1]
       IN  " Q " \o ToFixed2Halves(2 * cp[1]) \o " "
                 \o ToFixed2Halves(2 * cp[2]) \o " "
                 \o ToFixed2Halves(cp[1] + next[1]) \o " "
                 \o ToFixed2Halves(cp[2] + next[2])
                 \o QuadSegments(points, i + 1)

\* getSmoothedPath without the final straight segment
getSmoothedPath_NoFinalSegment(points) ==
  IF Len(points) = 0 THEN ""
  ELSE IF Len(points) < 3
       THEN "M " \o JoinWith(PointStrings(points), " L ")
       ELSE "M " \o ToFixed2Halves(2 * points[1][1]) \o " "
                 \o ToFixed2Halves(2 * points[1][2])
                 \o QuadSegments(points, 2)

getSmoothedPath(points) ==
  IF Len(points) = 0 THEN ""
  ELSE IF Len(points) < 3
       THEN "M " \o JoinWith(PointStrings(points), " L ")
       ELSE LET last == points[Len(points)]
            IN  "M " \o ToFixed2Halves(2 * points[1][1]) \o " "
                     \o ToFixed2Halves(2 * points[1][2])
                     \o QuadSegments(points, 2)
                     \o " L " \o ToFixed2Halves(2 * last[1]) \o " "
                     \o ToFixed2Halves(2 * last[2])

\* a committed curve is a template curve iff it is one of the fixed strings
IsTemplateCurve(d) == \E b \in TemplateButtons : b[1] = d
IsFreeHandCurve(d) == ~IsTemplateCurve(d)

(***************************************************************************)
(* ProblemContext values built by the program.                             *)
(***************************************************************************)
\* the context of handleMagic's timer (1006)
DirectContext(type) ==
  [ type |-> type,
    text |-> "User sketched a " \o type \o " and wants to analyze it." ]

\* the context of handleRecognitionConfirm's timer (1014-1019)
ConfirmContext(type) ==
  [ type |-> type,
    text |-> IF type = "default"
             THEN "User sketched a complex geometric shape. Ask them to describe its faces and vertices."
             ELSE "User sketched a " \o type \o "." ]

\* the text ScanView sets for a dropped file (778)
UploadText ==
  "User uploaded an image file containing a geometry problem. The AI should act as if it can see the problem but needs the user to transcribe specific numbers."

\* the examples of ScanView (758-763)
examples ==
  << [ type |-> "pyramid",
       text |-> "Calculate the total surface area of a square-based pyramid with base length 10cm and slant height 14cm." ],
     [ type |-> "cube",
       text |-> "A cube has a volume of 512 cm³. Find the length of its main space diagonal." ],
     [ type |-> "frustum",
       text |-> "A bucket is in the shape of a frustum with top radius 15cm, bottom radius 10cm, and height 20cm. Find its capacity." ],
     [ type |-> "default",
       text |-> "A sphere is inscribed perfectly inside a cylinder with height 10 units. What is the ratio of their volumes?" ] >>

\* initChat testing the kind before the upload marker
InitialMsg_KindFirst(context) ==
  LET head == "I've analyzed the "
                \o (IF context.type = "default" THEN "geometry"
                                                ELSE context.type)
                \o "."
  IN  IF context.type = "default"
      THEN head \o " It looks complex. Can you describe the faces or vertices to help me understand it better?"
      ELSE IF context.text # "" /\ Includes(context.text, "User uploaded an image")
      THEN head \o " Since I can't read the specific numbers from the image perfectly yet, could you tell me what values are given?"
      ELSE IF context.text # "" /\ Len(context.text) > 10
      THEN head \o " It looks like an interesting problem. What is the first variable we need to identify?"
      ELSE head \o " I'm ready to help you solve it. Where should we start?"

\* the opening message of initChat (1197-1208)
InitialMsg(context) ==
  LET head == "I've analyzed the "
                \o (IF context.type = "default" THEN "geometry"
                                                ELSE context.type)
                \o "."
  IN  IF context.text # "" /\ Includes(context.text, "User uploaded an image")
      THEN head \o " Since I can't read the specific numbers from the image perfectly yet, could you tell me what values are given?"
      ELSE IF context.type = "default"
      THEN head \o " It looks complex. Can you describe the faces or vertices to help me understand it better?"
      ELSE IF context.text # "" /\ Len(context.text) > 10
      THEN head \o " It looks like an interesting problem. What is the first variable we need to identify?"
      ELSE head \o " I'm ready to help you solve it. Where should we start?"

(***************************************************************************)
(* SketchpadView handlers (956-1021).  Each handler gives the next value   *)
(* of every sketchpad variable; completeTimers holds the closures passed   *)
(* to setTimeout, each with the context it captured and the handler that   *)
(* created it.                                                             *)
(***************************************************************************)
DistSquared(a, b) ==
  (a[1] - b[1]) * (a[1] - b[1]) + (a[2] - b[2]) * (a[2] - b[2])

\* Math.hypot(last[0] - x, last[1] - y) < 4
THRESHOLD == 4

\* the jitter test rejecting a distance of exactly THRESHOLD too
TooClose_Inclusive(last, p) == DistSquared(last, p) <= THRESHOLD * THRESHOLD

TooClose(last, p) == DistSquared(last, p) < THRESHOLD * THRESHOLD

\* handlePointerDown without the isSolving guard
handlePointerDown_IgnoresSolving(p) ==
  /\ currentPoints' = << p >>
  /\ UNCHANGED << paths, isSolving, showRecognition, selectedTemplate,
                  completeTimers >>

handlePointerDown(p) ==
  /\ currentPoints' = IF isSolving THEN currentPoints ELSE << p >>
  /\ UNCHANGED << paths, isSolving, showRecognition, selectedTemplate,
                  completeTimers >>

handlePointerMove(p, buttons) ==
  /\ currentPoints' =
       IF buttons # 1 \/ isSolving THEN currentPoints
       ELSE IF Len(currentPoints) > 0
               /\ TooClose(currentPoints[Len(currentPoints)], p)
            THEN currentPoints
            ELSE Append(currentPoints, p)
  /\ UNCHANGED << paths, isSolving, showRecognition, selectedTemplate,
                  completeTimers >>

\* handlePointerUp committing a stroke of a single point too
handlePointerUp_CommitsSingle ==
  /\ paths' = IF Len(currentPoints) > 0
              THEN Append(paths, getSmoothedPath(currentPoints))
              ELSE paths
  /\ currentPoints' = << >>
  /\ UNCHANGED << isSolving, showRecognition, selectedTemplate,
                  completeTimers >>

handlePointerUp ==
  /\ paths' = IF Len(currentPoints) > 1
              THEN Append(paths, getSmoothedPath(currentPoints))
              ELSE paths
  /\ currentPoints' = << >>
  /\ UNCHANGED << isSolving, showRecognition, selectedTemplate,
                  completeTimers >>

\* addTemplate setting the kind only while none is confirmed
addTemplate_KeepsFirstKind(d, type) ==
  /\ paths' = Append(paths, d)
  /\ selectedTemplate' = IF selectedTemplate = "default" THEN type
                                                        ELSE selectedTemplate
  /\ UNCHANGED << currentPoints, isSolving, showRecognition, completeTimers >>

addTemplate(d, type) ==
  /\ paths' = Append(paths, d)
  /\ selectedTemplate' = type
  /\ UNCHANGED << currentPoints, isSolving, showRecognition, completeTimers >>

\* clearCanvas without setSelectedTemplate('default')
clearCanvas_KeepsKind ==
  /\ paths' = << >>
  /\ UNCHANGED << currentPoints, isSolving, showRecognition,
                  selectedTemplate, completeTimers >>

clearCanvas ==
  /\ paths' = << >>
  /\ selectedTemplate' = "default"
  /\ UNCHANGED << currentPoints, isSolving, showRecognition, completeTimers >>

\* undoLast resetting the kind when the last curve is removed
undoLast_ResetsKind ==
  /\ paths' = SubSeq(paths, 1, Len(paths) - 1)
  /\ selectedTemplate' = IF Len(paths) <= 1 THEN "default"
                                            ELSE selectedTemplate
  /\ UNCHANGED << currentPoints, isSolving, showRecognition,
                  completeTimers >>

undoLast ==
  /\ paths' = SubSeq(paths, 1, Len(paths) - 1)
  /\ UNCHANGED << currentPoints, isSolving, showRecognition,
                  selectedTemplate, completeTimers >>

\* paths.length === 0 counting a canvas as empty only while no kind is
\* confirmed
PathsEmpty_NoKindOnly == Len(paths) = 0 /\ selectedTemplate = "default"

\* paths.length === 0 (995, 1082)
PathsEmpty == Len(paths) = 0

\* handleMagic deciding by the source of the last committed curve instead
\* of selectedTemplate
handleMagic_ByLastCurve ==
  IF Len(paths) = 0
  THEN UNCHANGED sketchVars
  ELSE IF IsFreeHandCurve(paths[Len(paths)])
  THEN /\ showRecognition' = TRUE
       /\ UNCHANGED << paths, currentPoints, isSolving, selectedTemplate,
                       completeTimers >>
  ELSE /\ isSolving' = TRUE
       /\ completeTimers' =
            Append(completeTimers,
                   [ by |-> "handleMagic",
                     context |-> DirectContext(selectedTemplate) ])
       /\ UNCHANGED << paths, currentPoints, showRecognition,
                       selectedTemplate >>

\* handleMagic without setIsSolving(true): the solve button stays enabled
\* while the timer is pending
handleMagic_NoSolvingFlag ==
  IF PathsEmpty
  THEN UNCHANGED sketchVars
  ELSE IF selectedTemplate = "default"
  THEN /\ showRecognition' = TRUE
       /\ UNCHANGED << paths, currentPoints, isSolving, selectedTemplate,
                       completeTimers >>
  ELSE /\ completeTimers' =
            Append(completeTimers,
                   [ by |-> "handleMagic",
                     context |-> DirectContext(selectedTemplate) ])
       /\ UNCHANGED << paths, currentPoints, isSolving, showRecognition,
                       selectedTemplate >>

handleMagic ==
  IF PathsEmpty
  THEN UNCHANGED sketchVars
  ELSE IF selectedTemplate = "default"
  THEN /\ showRecognition' = TRUE
       /\ UNCHANGED << paths, currentPoints, isSolving, selectedTemplate,
                       completeTimers >>
  ELSE /\ isSolving' = TRUE
       /\ completeTimers' =
            Append(completeTimers,
                   [ by |-> "handleMagic",
                     context |-> DirectContext(selectedTemplate) ])
       /\ UNCHANGED << paths, currentPoints, showRecognition,
                       selectedTemplate >>

\* handleRecognitionConfirm emitting the kind held in selectedTemplate
\* instead of the kind picked
handleRecognitionConfirm_StaleKind(type) ==
  /\ showRecognition' = FALSE
  /\ isSolving' = TRUE
  /\ completeTimers' =
       Append(completeTimers,
              [ by |-> "handleRecognitionConfirm",
                context |-> ConfirmContext(selectedTemplate) ])
  /\ UNCHANGED << paths, currentPoints, selectedTemplate >>

handleRecognitionConfirm(type) ==
  /\ showRecognition' = FALSE
  /\ isSolving' = TRUE
  /\ completeTimers' =
       Append(completeTimers,
              [ by |-> "handleRecognitionConfirm",
                context |-> ConfirmContext(type) ])
  /\ UNCHANGED << paths, currentPoints, selectedTemplate >>

\* onCancel also clearing the canvas
cancelRecognition_ClearsCanvas ==
  /\ showRecognition' = FALSE
  /\ paths' = << >>
  /\ selectedTemplate' = "default"
  /\ UNCHANGED << currentPoints, isSolving, completeTimers >>

\* onCancel of the modal (1033)
cancelRecognition ==
  /\ showRecognition' = FALSE
  /\ UNCHANGED << paths, currentPoints, isSolving, selectedTemplate,
                  completeTimers >>

\* the solve button is disabled (1082)
SolveDisabled == PathsEmpty \/ isSolving

(***************************************************************************)
(* App.handleAnalyze (1386-1393) and the mount of WorkspaceView with its   *)
(* initChat effect (1165-1213).                                            *)
(***************************************************************************)
handleAnalyze(context) ==
  /\ loading' = TRUE
  /\ analyzeTimers' = Append(analyzeTimers, context)
  /\ UNCHANGED << view, problemContext >>

\* initChat choosing the opener as for the default kind, whatever the kind
initChat_IgnoresKind(context) ==
  /\ chatSessionRef' = TRUE
  /\ messages' =
       << [ role |-> "ai",
            text |-> InitialMsg([ type |-> "default",
                                  text |-> context.text ]) ] >>

initChat(context) ==
  /\ chatSessionRef' = TRUE
  /\ messages' = << [ role |-> "ai", text |-> InitialMsg(context) ] >>

(***************************************************************************)
(* Events of the sketchpad.  While the confirmation modal (905, 1030-1035) *)
(* or the loading overlay (1398-1408) covers the view, the controls under  *)
(* it receive no event.                                                    *)
(***************************************************************************)
SketchControlsReachable ==
  view = "sketchpad" /\ ~loading /\ ~showRecognition

ModalReachable ==
  view = "sketchpad" /\ ~loading /\ showRecognition

PointerDown ==
  \E p \in Points :
    /\ SketchControlsReachable
    /\ handlePointerDown(p)
    /\ lastOp' = [ op |-> "press", arg |-> "" ]
    /\ UNCHANGED << appVars, chatVars, emitted, failed >>

PointerMove ==
  \E p \in Points, b \in Buttons :
    /\ SketchControlsReachable
    /\ Len(currentPoints) < MaxPoints
    /\ handlePointerMove(p, b)
    /\ lastOp' = [ op |-> "move", arg |-> "" ]
    /\ UNCHANGED << appVars, chatVars, emitted, failed >>

\* onPointerUp and onPointerLeave (1110-1111)
PointerUp ==
  /\ SketchControlsReachable
  /\ Len(currentPoints) > 1 => Len(paths) < MaxPaths
  /\ handlePointerUp
  /\ lastOp' = [ op |-> "release", arg |-> "" ]
  /\ UNCHANGED << appVars, chatVars, emitted, failed >>

ClickTemplate ==
  \E b \in TemplateButtons :
    /\ SketchControlsReachable
    /\ Len(paths) < MaxPaths
    /\ addTemplate(b[1], b[2])
    /\ lastOp' = [ op |-> "insertTemplate", arg |-> b[2] ]
    /\ UNCHANGED << appVars, chatVars, emitted, failed >>

ClickUndo ==
  /\ SketchControlsReachable
  /\ undoLast
  /\ lastOp' = [ op |-> "undo", arg |-> "" ]
  /\ UNCHANGED << appVars, chatVars, emitted, failed >>

ClickClear ==
  /\ SketchControlsReachable
  /\ clearCanvas
  /\ lastOp' = [ op |-> "clear", arg |-> "" ]
  /\ UNCHANGED << appVars, chatVars, emitted, failed >>

ClickSolve ==
  /\ SketchControlsReachable
  /\ IF SolveDisabled THEN UNCHANGED sketchVars ELSE handleMagic
  /\ lastOp' = [ op |-> IF SolveDisabled THEN "analyzeDisabled" ELSE "analyze",
                arg |-> "" ]
  /\ UNCHANGED << appVars, chatVars, emitted, failed >>

ClickConfirm ==
  \E type \in GeometryType :
    /\ ModalReachable
    /\ handleRecognitionConfirm(type)
    /\ lastOp' = [ op |-> "confirm", arg |-> type ]
    /\ UNCHANGED << appVars, chatVars, emitted, failed >>

ClickCancel ==
  /\ ModalReachable
  /\ cancelRecognition
  /\ lastOp' = [ op |-> "cancel", arg |-> "" ]
  /\ UNCHANGED << appVars, chatVars, emitted, failed >>

\* a sketchpad timer fires: onComplete(context), which is App.handleAnalyze
CompleteTimerFires ==
  /\ completeTimers # << >>
  /\ view = "sketchpad"
  /\ handleAnalyze(Head(completeTimers).context)
  /\ completeTimers' = Tail(completeTimers)
  /\ emitted' = Append(emitted, Head(completeTimers))
  /\ lastOp' = [ op |-> "emit", arg |-> "" ]
  /\ UNCHANGED << paths, currentPoints, isSolving, showRecognition,
                  selectedTemplate, chatVars, failed >>

\* the timer of handleAnalyze fires: the workspace is mounted on the context
AnalyzeTimerFires ==
  /\ analyzeTimers # << >>
  /\ loading' = FALSE
  /\ problemContext' = Head(analyzeTimers)
  /\ view' = "workspace"
  /\ analyzeTimers' = Tail(analyzeTimers)
  /\ initChat(Head(analyzeTimers))
  /\ lastOp' = [ op |-> "mount", arg |-> "" ]
  /\ UNCHANGED << sketchVars, inputText, isTyping, isRetrieving, turns,
                  sentPrompts, nTurns, emitted, failed >>

SketchInit ==
  /\ paths = << >>
  /\ currentPoints = << >>
  /\ isSolving = FALSE
  /\ showRecognition = FALSE
  /\ selectedTemplate = "default"
  /\ completeTimers = << >>
  /\ view = "sketchpad"
  /\ loading = FALSE
  /\ problemContext = [ type |-> "default", text |-> "" ]
  /\ analyzeTimers = << >>
  /\ messages = << >>
  /\ inputText = ""
  /\ isTyping = FALSE
  /\ isRetrieving = FALSE
  /\ chatSessionRef = FALSE
  /\ turns = << >>
  /\ sentPrompts = << >>
  /\ nTurns = 0
  /\ emitted = << >>
  /\ failed = 0
  /\ lastOp = [ op |-> "init", arg |-> "" ]

SketchNext ==
  \/ PointerDown
  \/ PointerMove
  \/ PointerUp
  \/ ClickTemplate
  \/ ClickUndo
  \/ ClickClear
  \/ ClickSolve
  \/ ClickConfirm
  \/ ClickCancel
  \/ CompleteTimerFires
  \/ AnalyzeTimerFires

SketchSpec == SketchInit /\ [][SketchNext]_vars

\* a timer that was set fires (setTimeout 1003, 1012, 1388)
SketchLive ==
  /\ SketchSpec
  /\ WF_vars(CompleteTimerFires)
  /\ WF_vars(AnalyzeTimerFires)

(***************************************************************************)
(* SmoothSpec: getSmoothedPath applied to every stroke of up to SmoothLen  *)
(* points of SmoothPoints, also the strokes of fewer than 2 points, which  *)
(* handlePointerUp does not commit.  The stroke is held in currentPoints   *)
(* and the curve returned is put in paths.                                 *)
(***************************************************************************)
\* points with one and two digits whose midpoints are whole and half
SmoothPoints == { <<0, 0>>, <<1, 2>>, <<10, 5>> }

Strokes == UNION { [ 1..n -> SmoothPoints ] : n \in 0..SmoothLen }

SmoothInit ==
  /\ paths = << >>
  /\ currentPoints \in Strokes
  /\ isSolving = FALSE
  /\ showRecognition = FALSE
  /\ selectedTemplate = "default"
  /\ completeTimers = << >>
  /\ view = "sketchpad"
  /\ loading = FALSE
  /\ problemContext = [ type |-> "default", text |-> "" ]
  /\ analyzeTimers = << >>
  /\ messages = << >>
  /\ inputText = ""
  /\ isTyping = FALSE
  /\ isRetrieving = FALSE
  /\ chatSessionRef = FALSE
  /\ turns = << >>
  /\ sentPrompts = << >>
  /\ nTurns = 0
  /\ emitted = << >>
  /\ failed = 0
  /\ lastOp = [ op |-> "init", arg |-> "" ]

\* const d = getSmoothedPath(currentPoints)
SmoothStroke ==
  /\ paths' = << getSmoothedPath(currentPoints) >>
  /\ lastOp' = [ op |-> "smooth", arg |-> "" ]
  /\ UNCHANGED << currentPoints, isSolving, showRecognition,
                  selectedTemplate, completeTimers, appVars, chatVars,
                  emitted, failed >>

SmoothNext == SmoothStroke

SmoothSpec == SmoothInit /\ [][SmoothNext]_vars

(***************************************************************************)
(* WorkspaceView.handleSendMessage (1219-1263).  One record of turns is    *)
(* one running call: the values its closure captured (userMsg,             *)
(* contextData, fullText), its position (pc) and the stream it iterates    *)
(* (reply, next).  id and aiIndex record which call it is and at which      *)
(* transcript index its AI message was appended.                           *)
(*   pc = "retrieving" : waiting in setTimeout (1232)                      *)
(*   pc = "awaiting"   : waiting for sendMessageStream (1241)              *)
(*   pc = "streaming"  : inside the for-await loop (1245)                  *)
(* A call that reached finally (1259) is removed from turns.               *)
(***************************************************************************)
ERROR_TEXT == "Connection error. Please try again."

\* the timeouts fire in the order they were set: the first retrieving call
FirstRetrieving ==
  CHOOSE i \in 1..Len(turns) :
    /\ turns[i].pc = "retrieving"
    /\ \A j \in 1..(i - 1) : turns[j].pc # "retrieving"

RemoveAt(seq, i) == SubSeq(seq, 1, i - 1) \o SubSeq(seq, i + 1, Len(seq))

\* 1238
PromptWithContext(contextData, userMsg) ==
  "[Context: " \o contextData \o "] User Question: " \o userMsg

\* the guard of 1220 without trim(): only the empty text is refused
SendRefused_NoTrim == inputText = "" \/ ~chatSessionRef

\* the guard of 1220 fails: the call returns at once
SendRefused == Trim(inputText) = "" \/ ~chatSessionRef

\* 1220-1229, up to the call of setTimeout
handleSendMessage ==
  IF SendRefused
  THEN UNCHANGED chatVars
  ELSE LET userMsg == inputText IN
       /\ inputText' = ""
       /\ messages' = Append(messages, [ role |-> "user", text |-> userMsg ])
       /\ isRetrieving' = TRUE
       /\ nTurns' = nTurns + 1
       /\ turns' = Append(turns,
            [ id          |-> nTurns + 1,
              userMsg     |-> userMsg,
              contextData |-> retrieveContext(userMsg, problemContext.type),
              pc          |-> "retrieving",
              reply       |-> << >>,
              next        |-> 1,
              fullText    |-> "",
              aiIndex     |-> 0 ])
       /\ UNCHANGED << isTyping, chatSessionRef, sentPrompts >>

\* 1233-1241: the timeout callback of call i, up to the await
retrievalDone(i) ==
  /\ isRetrieving' = FALSE
  /\ isTyping' = TRUE
  /\ sentPrompts' =
       Append(sentPrompts,
              PromptWithContext(turns[i].contextData, turns[i].userMsg))
  /\ turns' = [ turns EXCEPT ![i].pc = "awaiting" ]
  /\ UNCHANGED << messages, inputText, chatSessionRef, nTurns >>

\* 1243-1244: sendMessageStream resolved with the stream reply
streamOpened(i, reply) ==
  /\ messages' = Append(messages, [ role |-> "ai", text |-> "" ])
  /\ turns' = [ turns EXCEPT ![i].pc = "streaming",
                             ![i].reply = reply,
                             ![i].aiIndex = Len(messages) + 1 ]
  /\ UNCHANGED << inputText, isTyping, isRetrieving, chatSessionRef,
                  sentPrompts, nTurns >>

\* 1246-1254: one iteration of the loop of call i on the fragment text
chunkReceived(i, text) ==
  LET fullText == turns[i].fullText \o text IN
  /\ messages' = IF text # ""
                 THEN [ messages EXCEPT ![Len(messages)] =
                          [ role |-> "ai", text |-> fullText ] ]
                 ELSE messages
  /\ turns' = [ turns EXCEPT ![i].fullText = IF text # "" THEN fullText
                                             ELSE @,
                             ![i].next = @ + 1 ]
  /\ UNCHANGED << inputText, isTyping, isRetrieving, chatSessionRef,
                  sentPrompts, nTurns >>

\* the loop ends, then finally (1259-1261)
streamCompleted(i) ==
  /\ isTyping' = FALSE
  /\ turns' = RemoveAt(turns, i)
  /\ UNCHANGED << messages, inputText, isRetrieving, chatSessionRef,
                  sentPrompts, nTurns >>

\* streamFailed without the finally block: the streaming flag stays set
streamFailed_NoFinally(i) ==
  /\ messages' = Append(messages, [ role |-> "ai", text |-> ERROR_TEXT ])
  /\ turns' = RemoveAt(turns, i)
  /\ UNCHANGED << inputText, isTyping, isRetrieving, chatSessionRef,
                  sentPrompts, nTurns >>

\* streamFailed writing the error over the last message instead of
\* appending it
streamFailed_Replaces(i) ==
  /\ messages' = [ messages EXCEPT ![Len(messages)] =
                     [ role |-> "ai", text |-> ERROR_TEXT ] ]
  /\ isTyping' = FALSE
  /\ turns' = RemoveAt(turns, i)
  /\ UNCHANGED << inputText, isRetrieving, chatSessionRef, sentPrompts,
                  nTurns >>

\* catch (1256-1258), then finally (1259-1261)
streamFailed(i) ==
  /\ messages' = Append(messages, [ role |-> "ai", text |-> ERROR_TEXT ])
  /\ isTyping' = FALSE
  /\ turns' = RemoveAt(turns, i)
  /\ UNCHANGED << inputText, isRetrieving, chatSessionRef, sentPrompts,
                  nTurns >>

\* the send button is disabled (1348)
SendDisabled == Trim(inputText) = "" \/ isTyping \/ isRetrieving

(***************************************************************************)
(* Events of the workspace.                                                *)
(***************************************************************************)
\* onChange of the input (1341)
TypeInput ==
  \E s \in InputTexts :
    /\ view = "workspace"
    /\ s # inputText
    /\ inputText' = s
    /\ UNCHANGED << sketchVars, appVars, emitted, failed, lastOp, messages, isTyping,
                    isRetrieving, chatSessionRef, turns, sentPrompts, nTurns >>

\* onClick of the send button (1346-1348)
ClickSend ==
  /\ view = "workspace"
  /\ (SendDisabled \/ SendRefused) \/ nTurns < MaxTurns
  /\ IF SendDisabled THEN UNCHANGED chatVars ELSE handleSendMessage
  /\ UNCHANGED << sketchVars, appVars, emitted, failed, lastOp >>

\* onKeyDown of the input with key Enter (1265-1267, 1342)
PressEnter ==
  /\ view = "workspace"
  /\ SendRefused \/ nTurns < MaxTurns
  /\ handleSendMessage
  /\ UNCHANGED << sketchVars, appVars, emitted, failed, lastOp >>

RetrievalTimerFires ==
  /\ \E i \in 1..Len(turns) : turns[i].pc = "retrieving"
  /\ retrievalDone(FirstRetrieving)
  /\ UNCHANGED << sketchVars, appVars, emitted, failed, lastOp >>

StreamOpens ==
  \E i \in 1..Len(turns), reply \in Replies :
    /\ turns[i].pc = "awaiting"
    /\ streamOpened(i, reply)
    /\ UNCHANGED << sketchVars, appVars, emitted, failed, lastOp >>

ChunkArrives ==
  \E i \in 1..Len(turns) :
    /\ turns[i].pc = "streaming"
    /\ turns[i].next <= Len(turns[i].reply)
    /\ chunkReceived(i, turns[i].reply[turns[i].next])
    /\ UNCHANGED << sketchVars, appVars, emitted, failed, lastOp >>

StreamEnds ==
  \E i \in 1..Len(turns) :
    /\ turns[i].pc = "streaming"
    /\ turns[i].next > Len(turns[i].reply)
    /\ streamCompleted(i)
    /\ UNCHANGED << sketchVars, appVars, emitted, failed, lastOp >>

\* sendMessageStream rejects, or the iteration of the stream throws
StreamFails ==
  \E i \in 1..Len(turns) :
    /\ turns[i].pc \in { "awaiting", "streaming" }
    /\ streamFailed(i)
    /\ failed' = failed + 1
    /\ UNCHANGED << sketchVars, appVars, emitted, lastOp >>

\* contexts a session is mounted on: a template sketch
SessionContexts == { DirectContext("cube") }

\* the state right after WorkspaceView mounted and initChat ran
ChatInit ==
  /\ paths = << >>
  /\ currentPoints = << >>
  /\ isSolving = FALSE
  /\ showRecognition = FALSE
  /\ selectedTemplate = "default"
  /\ completeTimers = << >>
  /\ view = "workspace"
  /\ loading = FALSE
  /\ problemContext \in SessionContexts
  /\ analyzeTimers = << >>
  /\ messages = << [ role |-> "ai", text |-> InitialMsg(problemContext) ] >>
  /\ inputText = ""
  /\ isTyping = FALSE
  /\ isRetrieving = FALSE
  /\ chatSessionRef = TRUE
  /\ turns = << >>
  /\ sentPrompts = << >>
  /\ nTurns = 0
  /\ emitted = << >>
  /\ failed = 0
  /\ lastOp = [ op |-> "mount", arg |-> "" ]

ChatNext ==
  \/ TypeInput
  \/ ClickSend
  \/ PressEnter
  \/ RetrievalTimerFires
  \/ StreamOpens
  \/ ChunkArrives
  \/ StreamEnds
  \/ StreamFails

ChatSpec == ChatInit /\ [][ChatNext]_vars

\* the timeouts fire and the remote call ends its stream or fails
RemoteStep == StreamOpens \/ ChunkArrives \/ StreamEnds \/ StreamFails

ChatLive ==
  /\ ChatSpec
  /\ WF_vars(RetrievalTimerFires)
  /\ WF_vars(RemoteStep)

(***************************************************************************)
(* RetrieveSpec: retrieveContext applied, as handleSendMessage applies it  *)
(* (1229), to each query of Queries in a workspace of each kind of         *)
(* RetrieveTypes.  The query is the text of the input field when Enter is  *)
(* pressed; the result is the contextData the running call captured.       *)
(***************************************************************************)
\* queries: none, one or several of the keywords, in lower, upper and mixed
\* case, alone, inside a sentence and inside a longer word
Queries ==
  { "", "tell me about it", "What is the volume?", "VOLUME",
    "How much space is inside?", "capacity", "surface area", "Area?",
    "the diagonal", "What is the height?", "slant", "volume and area",
    "Space Diagonal", "Volume, surface and height", "spaceships" }

\* the kinds of the knowledge base and one it has no entry for
RetrieveTypes == GeometryType \cup { "sphere" }

RetrieveInit ==
  /\ paths = << >>
  /\ currentPoints = << >>
  /\ isSolving = FALSE
  /\ showRecognition = FALSE
  /\ selectedTemplate = "default"
  /\ completeTimers = << >>
  /\ view = "workspace"
  /\ loading = FALSE
  /\ problemContext \in { ConfirmContext(type) : type \in RetrieveTypes }
  /\ analyzeTimers = << >>
  /\ messages = << [ role |-> "ai", text |-> InitialMsg(problemContext) ] >>
  /\ inputText \in Queries
  /\ isTyping = FALSE
  /\ isRetrieving = FALSE
  /\ chatSessionRef = TRUE
  /\ turns = << >>
  /\ sentPrompts = << >>
  /\ nTurns = 0
  /\ emitted = << >>
  /\ failed = 0
  /\ lastOp = [ op |-> "mount", arg |-> "" ]

RetrieveNext ==
  \/ PressEnter
  \/ RetrievalTimerFires

RetrieveSpec == RetrieveInit /\ [][RetrieveNext]_vars

(***************************************************************************)
(* MountSpec: App.handleAnalyze was called with a context (by ScanView or  *)
(* by the sketchpad) and its timer mounts the workspace, whose initChat    *)
(* runs on that context.  The contexts pair every kind with every text of  *)
(* MountTexts.                                                             *)
(***************************************************************************)
\* problem texts: none, of 4, 10 and 11 characters, with the upload marker
\* at the start, inside and in lower case, and the texts the program builds
MountTexts ==
  { "", "cube", "0123456789", "0123456789A",
    UploadText, "Note: User uploaded an image", "user uploaded an image" }
  \cup { examples[i].text : i \in 1..Len(examples) }
  \cup { ConfirmContext(type).text : type \in GeometryType }
  \cup { DirectContext(type).text : type \in GeometryType \ { "default" } }

MountContexts == [ type : GeometryType, text : MountTexts ]

MountInit ==
  /\ paths = << >>
  /\ currentPoints = << >>
  /\ isSolving = FALSE
  /\ showRecognition = FALSE
  /\ selectedTemplate = "default"
  /\ completeTimers = << >>
  /\ view = "scan"
  /\ loading = TRUE
  /\ problemContext = [ type |-> "default", text |-> "" ]
  /\ analyzeTimers \in { << context >> : context \in MountContexts }
  /\ messages = << >>
  /\ inputText = ""
  /\ isTyping = FALSE
  /\ isRetrieving = FALSE
  /\ chatSessionRef = FALSE
  /\ turns = << >>
  /\ sentPrompts = << >>
  /\ nTurns = 0
  /\ emitted = << >>
  /\ failed = 0
  /\ lastOp = [ op |-> "handleAnalyze", arg |-> "" ]

MountNext == AnalyzeTimerFires

MountSpec == MountInit /\ [][MountNext]_vars

(***************************************************************************)
(* Properties of the tutoring session.                                     *)
(***************************************************************************)
\* neither indicator is set
Ready == ~isRetrieving /\ ~isTyping

RECURSIVE Concat(_)
\* the concatenation of a sequence of fragments
Concat(frags) ==
  IF frags = << >> THEN "" ELSE Head(frags) \o Concat(Tail(frags))

\* the fragments call t has received so far
Arrived(t) == SubSeq(t.reply, 1, t.next - 1)

\* C1: a session has at most one user turn in flight: no send, by the button
\* or by Enter, is accepted while an earlier turn is Retrieving or Streaming.
C1_OneTurnInFlight == Len(turns) <= 1

\* C2: the transcript is append-only; the only message modified in place is
\* the AI message of the turn that is streaming, and only by a fragment of
\* that same turn; a user message never changes.
C2_AppendOnly ==
  [][ /\ Len(messages') >= Len(messages)
      /\ \A i \in 1..Len(messages) :
           messages'[i] # messages[i] =>
             /\ messages[i].role = "ai"
             /\ messages'[i].role = "ai"
             /\ \E t \in 1..Len(turns) :
                  /\ turns[t].pc = "streaming"
                  /\ turns[t].aiIndex = i
                  /\ t <= Len(turns')
                  /\ turns'[t].id = turns[t].id
                  /\ turns'[t].next = turns[t].next + 1 ]_vars

\* C3: while a turn streams, the AI message appended for it holds the
\* concatenation, in arrival order, of the fragments that have arrived.
C3_StreamingAccumulation ==
  \A t \in 1..Len(turns) :
    turns[t].pc = "streaming" =>
      /\ turns[t].aiIndex \in 1..Len(messages)
      /\ messages[turns[t].aiIndex] =
           [ role |-> "ai", text |-> Concat(Arrived(turns[t])) ]

\* C4: every accepted send is followed by the session being Ready again,
\* when the stream ends and when the remote call fails.
C4_EventuallyReady == (turns # << >>) ~> Ready

\* C4 witness: the session is Ready again after a turn whose remote call
\* failed
C4_ReadyAfterFailure ==
  /\ failed > 0
  /\ turns = << >>
  /\ Ready
  /\ messages[Len(messages)].text = ERROR_TEXT

\* C5: when the remote call of a turn fails, the fixed error message is
\* appended as the last transcript entry and every earlier message is kept;
\* no prompt is sent for it again (the prompts sent never exceed the sends
\* accepted); the session keeps its chat handle, so a later non-empty send
\* is accepted.
C5_FailureRecovered ==
  /\ [][ failed' # failed =>
           /\ messages' =
                Append(messages, [ role |-> "ai", text |-> ERROR_TEXT ])
           /\ sentPrompts' = sentPrompts ]_vars
  /\ [](Len(sentPrompts) <= nTurns)
  /\ [](failed > 0 /\ Trim(inputText) # "" => ~SendRefused)

\* C5 witness: after a failed turn a new turn was sent and streamed its
\* whole reply
C5_NewTurnAfterFailure ==
  /\ failed = 1
  /\ nTurns = 2
  /\ turns = << >>
  /\ Len(messages) = 5
  /\ messages[3].text = ERROR_TEXT
  /\ messages[4].role = "user"
  /\ messages[5] = [ role |-> "ai", text |-> "Volume" ]

(***************************************************************************)
(* Properties of the sketchpad.                                            *)
(***************************************************************************)
AllFreeHand(ps) == \A i \in 1..Len(ps) : IsFreeHandCurve(ps[i])

SomeFreeHand(ps) == \E i \in 1..Len(ps) : IsFreeHandCurve(ps[i])

SomeTemplate(ps) == \E i \in 1..Len(ps) : IsTemplateCurve(ps[i])

\* the analysis just requested went on without the confirmation step: its
\* timer, which emits the context, is set
ProceededDirectly ==
  \E i \in 1..Len(completeTimers) : completeTimers[i].by = "handleMagic"

\* C6: when every committed curve is free-hand, a request for analysis sets
\* no emission of a ProblemContext: one is emitted only after the
\* confirmation step was shown and a kind picked.
C6_ConfirmationGate ==
  (lastOp.op = "analyze" /\ paths # << >> /\ AllFreeHand(paths))
    => ~ProceededDirectly

\* C7: confirmedKind (selectedTemplate) is default whenever the committed
\* list holds at least one free-hand curve and no template curve.
C7_KindDefaultWhenFreeHandOnly ==
  (SomeFreeHand(paths) /\ ~SomeTemplate(paths))
    => selectedTemplate = "default"

\* C8: right after undo or clear the in-progress stroke is empty.
C8_NoStrokeAfterUndoOrClear ==
  lastOp.op \in { "undo", "clear" } => currentPoints = << >>

\* C9 as stated: analysis of a non-empty canvas proceeds directly exactly
\* when the last committed curve came from a template, then with
\* confirmedKind as the type and a non-empty text; otherwise the
\* confirmation step is shown.
C9_DirectIffLastCurveTemplate ==
  lastOp.op = "analyze" =>
    /\ ProceededDirectly <=> IsTemplateCurve(paths[Len(paths)])
    /\ ProceededDirectly =>
         /\ completeTimers[Len(completeTimers)].context.type
              = selectedTemplate
         /\ completeTimers[Len(completeTimers)].context.text # ""
    /\ ~ProceededDirectly => showRecognition

\* C9 amended: analysis of a non-empty canvas proceeds directly exactly when
\* confirmedKind (selectedTemplate) is not default, whatever the source of
\* the last committed curve; the context it emits has that kind as its type
\* and a non-empty text; otherwise the confirmation step is shown and no
\* emission is set.
C9_DirectIffKindConfirmed ==
  lastOp.op = "analyze" =>
    IF selectedTemplate # "default"
    THEN /\ ~showRecognition
         /\ Len(completeTimers) = 1
         /\ completeTimers[1].by = "handleMagic"
         /\ completeTimers[1].context.type = selectedTemplate
         /\ completeTimers[1].context.text # ""
    ELSE /\ showRecognition
         /\ completeTimers = << >>

\* C9 witness: analysis went on directly although the last committed curve
\* is free-hand
C9_DirectWithFreeHandLast ==
  /\ lastOp.op = "analyze"
  /\ ProceededDirectly
  /\ IsFreeHandCurve(paths[Len(paths)])

\* the text asks the tutor to have the user describe faces and vertices
AsksForFacesAndVertices(text) ==
  /\ Includes(text, "Ask them to describe")
  /\ Includes(text, "faces")
  /\ Includes(text, "vertices")

\* the context is the one a pick of kind is to emit
PickedContextOk(context, kind) ==
  /\ context.type = kind
  /\ context.text # ""
  /\ kind # "default" => Includes(context.text, kind)
  /\ kind = "default" => AsksForFacesAndVertices(context.text)
  /\ \A other \in GeometryType \ { kind } :
       other # "default" => ~Includes(context.text, other)

\* C10: a pick in the confirmation step emits a ProblemContext whose type
\* is the picked kind, for each of the four kinds, with a non-empty text
\* that names that kind and no other; for other/complex (default) the text
\* tells the tutor to ask the user to describe faces and vertices.
C10_PickEmitsPickedKind ==
  /\ lastOp.op = "confirm" =>
       /\ completeTimers # << >>
       /\ completeTimers[Len(completeTimers)].by = "handleRecognitionConfirm"
       /\ PickedContextOk(completeTimers[Len(completeTimers)].context,
                          lastOp.arg)
  /\ \A i \in 1..Len(emitted) :
       emitted[i].by = "handleRecognitionConfirm" =>
         \E kind \in GeometryType : PickedContextOk(emitted[i].context, kind)

\* C10 witness: the context of a pick of other/complex has been emitted
C10_DefaultPickEmitted ==
  /\ lastOp.op = "emit"
  /\ emitted # << >>
  /\ emitted[Len(emitted)].by = "handleRecognitionConfirm"
  /\ emitted[Len(emitted)].context.type = "default"

\* the canvas state: committed curves, in-progress stroke and confirmedKind
canvas == << paths, currentPoints, selectedTemplate >>

\* C11: cancelling the confirmation step emits no ProblemContext and leaves
\* the canvas state as it was before analysis was requested (neither the
\* request that showed the step nor the cancel changes committed curves,
\* in-progress stroke or confirmedKind); afterwards the canvas is editable
\* and analysable again.
C11_CancelLeavesCanvas ==
  /\ [][ (showRecognition' /\ ~showRecognition) =>
           /\ canvas' = canvas
           /\ lastOp'.op = "analyze" ]_vars
  /\ [][ lastOp'.op = "cancel" =>
           /\ lastOp.op \in { "analyze", "cancel" }
           /\ canvas' = canvas
           /\ completeTimers' = completeTimers
           /\ analyzeTimers' = analyzeTimers
           /\ emitted' = emitted ]_vars
  /\ [](lastOp.op = "cancel" =>
           /\ SketchControlsReachable
           /\ ~SolveDisabled
           /\ completeTimers = << >>
           /\ emitted = << >>)

\* C11 witness: the step was cancelled with two committed curves and a
\* stroke in progress, all of them kept
C11_CancelledWithStroke ==
  /\ lastOp.op = "cancel"
  /\ Len(paths) = 2
  /\ currentPoints # << >>
  /\ ~showRecognition

\* C12: an accepted analysis request (direct, or a confirmation pick) sets
\* exactly one emission: at most one context is ever pending or emitted,
\* its type is the kind fixed when the request was accepted (confirmedKind
\* for a direct request, the picked kind for a pick), no later canvas
\* operation changes the pending context, the context is emitted unchanged
\* and handed to the workspace, and it is eventually emitted.
C12_OneEmissionFixedKind ==
  /\ [](Len(completeTimers) + Len(emitted) <= 1)
  /\ [][ (completeTimers = << >> /\ completeTimers' # << >>) =>
           /\ lastOp'.op \in { "analyze", "confirm" }
           /\ completeTimers'[1].context.type =
                IF lastOp'.op = "confirm" THEN lastOp'.arg
                                          ELSE selectedTemplate ]_vars
  /\ [][ completeTimers # << >> =>
           \/ completeTimers' = completeTimers /\ emitted' = emitted
           \/ /\ completeTimers' = << >>
              /\ emitted' = << Head(completeTimers) >> ]_vars
  /\ [][ emitted # << >> => emitted' = emitted ]_vars
  /\ [](view = "workspace" =>
           /\ Len(emitted) = 1
           /\ problemContext = emitted[1].context)
  /\ (completeTimers # << >>) ~> (Len(emitted) = 1)

\* C12 witness: the context of a direct request for a cube was emitted
\* after the canvas was cleared, which reset confirmedKind
C12_EmittedAfterCanvasChanged ==
  /\ Len(emitted) = 1
  /\ emitted[1].context.type = "cube"
  /\ emitted[1].by = "handleMagic"
  /\ selectedTemplate = "default"
  /\ paths = << >>

\* C13: a request for analysis on a canvas with no committed curve is
\* refused: the sketchpad state is unchanged, no confirmation step is
\* shown and nothing is emitted or set to be emitted, also when
\* confirmedKind is still a template kind; an accepted request always has
\* a committed curve.
C13_EmptyCanvasRefused ==
  /\ [][ (lastOp'.op \in { "analyze", "analyzeDisabled" } /\ paths = << >>) =>
           /\ UNCHANGED sketchVars
           /\ UNCHANGED appVars
           /\ emitted' = emitted
           /\ ~showRecognition' ]_vars
  /\ [](lastOp.op = "analyze" => paths # << >>)

\* C13 witness: analysis was requested on an empty canvas whose
\* confirmedKind is still a template kind, and nothing was set
C13_RefusedWithKindLeft ==
  /\ lastOp.op = "analyzeDisabled"
  /\ paths = << >>
  /\ selectedTemplate # "default"
  /\ ~isSolving
  /\ completeTimers = << >>
  /\ ~showRecognition

(***************************************************************************)
(* Properties of a send (handleSendMessage, by the button or by Enter).    *)
(***************************************************************************)
\* C14: a send whose text is empty or only whitespace leaves the transcript
\* and the session phase unchanged; a send with non-empty text in a Ready
\* session appends exactly one user message carrying exactly the text of
\* the input field and moves the session to Retrieving.
C14_SendEffect ==
  [][ (ClickSend \/ PressEnter) =>
        IF Trim(inputText) = ""
        THEN /\ messages' = messages
             /\ isRetrieving' = isRetrieving
             /\ isTyping' = isTyping
             /\ turns' = turns
        ELSE Ready =>
               /\ messages' =
                    Append(messages, [ role |-> "user", text |-> inputText ])
               /\ isRetrieving'
               /\ ~isTyping' ]_vars

\* C14 witness: the first send of a Ready session was accepted: the
\* transcript holds the opener and the user message, and the session is
\* Retrieving
C14_FirstSendAccepted ==
  /\ Len(messages) = 2
  /\ messages[2] = [ role |-> "user", text |-> "What is the volume?" ]
  /\ isRetrieving
  /\ ~isTyping
  /\ nTurns = 1

(***************************************************************************)
(* Properties of retrieveContext.                                          *)
(***************************************************************************)
RECURSIVE SplitLines(_)
\* the lines of a text
SplitLines(s) ==
  IF ~Includes(s, "\n") THEN << s >>
  ELSE LET i == CHOOSE j \in 1..Len(s) :
                  /\ SubSeq(s, j, j) = "\n"
                  /\ \A k \in 1..(j - 1) : SubSeq(s, k, k) # "\n"
       IN  << SubSeq(s, 1, i - 1) >> \o SplitLines(SubSeq(s, i + 1, Len(s)))

\* the knowledge entry of a kind: its own, or the default one for a kind
\* that is none of the known kinds
Entry(type) ==
  IF type \in GeometryType THEN GEOMETRY_KNOWLEDGE_BASE[type]
                           ELSE GEOMETRY_KNOWLEDGE_BASE["default"]

VolumeKeywords == { "volume", "space", "capacity" }
AreaKeywords   == { "area", "surface" }
OtherKeywords  == { "diagonal", "height", "slant" }

\* the same character, or the same letter in its two cases
SameLetter(a, b) ==
  \/ a = b
  \/ \E n \in 1..26 :
       { a, b } = { SubSeq(UpperCase, n, n), SubSeq(LowerCase, n, n) }

\* the query contains one of the keywords, whatever the case of its letters
Matches(query, keywords) ==
  \E k \in keywords :
    \E i \in 1..(Len(query) - Len(k) + 1) :
      \A j \in 1..Len(k) :
        SameLetter(SubSeq(query, i + j - 1, i + j - 1), SubSeq(k, j, j))

\* C15: for every query and every kind the result is a non-empty string
\* whose first line is exactly "Definition: " followed by the definition
\* of that kind's knowledge entry.
C15_DefinitionFirst ==
  \A t \in 1..Len(turns) :
    /\ turns[t].contextData # ""
    /\ SplitLines(turns[t].contextData)[1] =
         "Definition: " \o Entry(problemContext.type).definition

\* C15 witness: the result for a frustum and a query matching all three
\* keyword steps
C15_FrustumAllSteps ==
  \E t \in 1..Len(turns) :
    /\ problemContext.type = "frustum"
    /\ turns[t].userMsg = "Volume, surface and height"
    /\ Len(SplitLines(turns[t].contextData)) = 4

\* the formulas of a list that contain a word, joined as the result
\* lists them
Selection(formulas, word) ==
  JoinWith(SelectSeq(formulas, LAMBDA f : Includes(f, word)), "; ")

\* the lines the three keyword steps are to append for a query, in order
KeywordLines(query, type) ==
  LET formulas == Entry(type).formulas IN
    (IF Matches(query, VolumeKeywords)
     THEN << "Relevant Formulas: " \o Selection(formulas, "Volume") >>
     ELSE << >>)
    \o (IF Matches(query, AreaKeywords)
        THEN << "Relevant Formulas: " \o Selection(formulas, "Area") >>
        ELSE << >>)
    \o (IF Matches(query, OtherKeywords)
        THEN << "Properties/Other Formulas: " \o JoinWith(formulas, "; ") >>
        ELSE << >>)

\* some keyword of the three steps is in the query
MatchesSome(query) ==
  Matches(query, VolumeKeywords \cup AreaKeywords \cup OtherKeywords)

\* C16: keywords are matched as substrings of the query whatever the case
\* of its letters; after the definition line the result holds, in this
\* order, the formulas containing "Volume" if the query has volume, space
\* or capacity, the formulas containing "Area" if it has area or surface,
\* and the whole formula list if it has diagonal, height or slant, taken
\* from the entry of the kind, or from the default entry for a kind that
\* is none of the known kinds; a query with no keyword gets no formula
\* line.
C16_KeywordSteps ==
  \A t \in 1..Len(turns) :
    LET lines == SplitLines(turns[t].contextData)
        query == turns[t].userMsg
    IN  IF MatchesSome(query)
        THEN Tail(lines) = KeywordLines(query, problemContext.type)
        ELSE \A i \in 2..Len(lines) : ~Includes(lines[i], "Formulas: ")

\* C16 witness: a query in mixed case matching the first and the third
\* step, for a kind without an entry of its own
C16_MixedCaseUnknownKind ==
  \E t \in 1..Len(turns) :
    /\ problemContext.type = "sphere"
    /\ turns[t].userMsg = "Space Diagonal"
    /\ Len(SplitLines(turns[t].contextData)) = 3

\* the formulas of a kind's entry that mention Area but not Volume
AreaOnlyFormulas(type) ==
  { f \in { Entry(type).formulas[i] : i \in 1..Len(Entry(type).formulas) } :
      Includes(f, "Area") /\ ~Includes(f, "Volume") }

\* the result holds the definition line and every formula of the entry
\* that mentions Volume
HasDefinitionAndVolume(result, type) ==
  /\ Includes(result, "Definition: " \o Entry(type).definition)
  /\ \A i \in 1..Len(Entry(type).formulas) :
       Includes(Entry(type).formulas[i], "Volume")
         => Includes(result, Entry(type).formulas[i])

\* C17 as stated: for a query matching a volume keyword the result holds
\* the entry's Volume formula and the definition line, and it holds a
\* formula that mentions Area but not Volume only if the query also
\* matches an area keyword.
C17_AreaOnlyNeedsAreaKeyword ==
  \A t \in 1..Len(turns) :
    Matches(turns[t].userMsg, VolumeKeywords) =>
      /\ HasDefinitionAndVolume(turns[t].contextData, problemContext.type)
      /\ (\E f \in AreaOnlyFormulas(problemContext.type) :
             Includes(turns[t].contextData, f))
           => Matches(turns[t].userMsg, AreaKeywords)

\* C17 amended: for a query matching a volume keyword the result holds the
\* entry's Volume formula and the definition line, and it holds a formula
\* that mentions Area but not Volume exactly when the entry has one and
\* the query also matches an area keyword or one of diagonal, height and
\* slant.
C17_AreaOnlyNeedsAreaOrOtherKeyword ==
  \A t \in 1..Len(turns) :
    Matches(turns[t].userMsg, VolumeKeywords) =>
      /\ HasDefinitionAndVolume(turns[t].contextData, problemContext.type)
      /\ \A f \in AreaOnlyFormulas(problemContext.type) :
           Includes(turns[t].contextData, f)
             <=> \/ Matches(turns[t].userMsg, AreaKeywords)
                 \/ Matches(turns[t].userMsg, OtherKeywords)

\* C17 witness: the result for a cube holds the Surface Area formula for a
\* query with space and diagonal and no area keyword
C17_SurfaceAreaWithoutAreaKeyword ==
  \E t \in 1..Len(turns) :
    /\ problemContext.type = "cube"
    /\ Matches(turns[t].userMsg, VolumeKeywords)
    /\ ~Matches(turns[t].userMsg, AreaKeywords)
    /\ Includes(turns[t].contextData, "Volume = s³")
    /\ Includes(turns[t].contextData, "Surface Area = 6s²")

\* the last line of the result is the property list of the kind's entry
HasPropertiesLine(result, type) ==
  LET lines == SplitLines(result) IN
    lines[Len(lines)] =
      "Key Properties: " \o JoinWith(Entry(type).properties, "; ")

\* no line after the definition holds a formula of the kind's entry
NoFormulaAdded(result, type) ==
  LET lines == SplitLines(result) IN
    \A i \in 2..Len(lines) :
      \A n \in 1..Len(Entry(type).formulas) :
        ~Includes(lines[i], Entry(type).formulas[n])

\* C18: the property list is appended exactly when none of the
\* three keyword steps added a formula beyond the definition, be it that
\* no keyword matched or that the filter of a matched keyword selected no
\* formula of the entry.
C18_PropertiesIffNoFormula ==
  \A t \in 1..Len(turns) :
    HasPropertiesLine(turns[t].contextData, problemContext.type)
      <=> NoFormulaAdded(turns[t].contextData, problemContext.type)

(***************************************************************************)
(* Properties of the initialisation of a session.                          *)
(***************************************************************************)
\* what the opener asks for
AsksGivenValues(text)   == Includes(text, "what values are given")
AsksFacesOrVertices(text) == Includes(text, "faces or vertices")
AsksFirstVariable(text) == Includes(text, "first variable")
AsksWhereToStart(text)  == Includes(text, "Where should we start")

\* the case of the priority list a context falls in
OpenerCase(context) ==
  IF Includes(context.text, "User uploaded an image") THEN "a"
  ELSE IF context.type = "default" THEN "b"
  ELSE IF Len(context.text) > 10 THEN "c"
  ELSE "d"

\* C20: initialising a session leaves the transcript holding exactly one
\* message, an AI message that (a) asks for the given values if the
\* problem text signals an image upload, (b) else asks for a description
\* of faces or vertices if the kind is default, (c) else asks for the
\* first variable if the problem text is longer than 10 characters, (d)
\* else asks where to start, and asks nothing of the other cases; the
\* session is Ready afterwards.
C20_OpenerByPriority ==
  lastOp.op = "mount" =>
    /\ Len(messages) = 1
    /\ messages[1].role = "ai"
    /\ AsksGivenValues(messages[1].text) <=> OpenerCase(problemContext) = "a"
    /\ AsksFacesOrVertices(messages[1].text)
         <=> OpenerCase(problemContext) = "b"
    /\ AsksFirstVariable(messages[1].text)
         <=> OpenerCase(problemContext) = "c"
    /\ AsksWhereToStart(messages[1].text)
         <=> OpenerCase(problemContext) = "d"
    /\ Ready
    /\ chatSessionRef
    /\ turns = << >>

\* C20 witness: a session on the upload text of ScanView, whose kind is
\* default, opens by asking for the given values
C20_UploadBeforeDefault ==
  /\ lastOp.op = "mount"
  /\ problemContext = [ type |-> "default", text |-> UploadText ]
  /\ Len(messages) = 1
  /\ AsksGivenValues(messages[1].text)

(***************************************************************************)
(* The scenario from the stroke to the opener of the session.              *)
(***************************************************************************)
\* the text asks about faces or vertices
AsksAboutFaces(text) == Includes(text, "faces") \/ Includes(text, "vertices")

TemplateCurve(kind) ==
  CASE kind = "cube"    -> TEMPLATES.CUBE
    [] kind = "pyramid" -> TEMPLATES.PYRAMID
    [] kind = "frustum" -> TEMPLATES.FRUSTUM

\* ps is qs with its last element removed, or both are empty
WithoutLast(ps, qs) ==
  /\ Len(ps) = (IF Len(qs) = 0 THEN 0 ELSE Len(qs) - 1)
  /\ \A i \in 1..Len(ps) : ps[i] = qs[i]

\* C22: insertTemplate(kind) appends exactly one curve, the fixed curve of
\* that kind, at the end of the committed list and sets confirmedKind to
\* kind, whatever curves are already there; after templates of different
\* kinds confirmedKind is the kind inserted last.
C22_InsertTemplate ==
  [][ lastOp'.op = "insertTemplate" =>
        /\ lastOp'.arg \in { "cube", "pyramid", "frustum" }
        /\ paths' = Append(paths, TemplateCurve(lastOp'.arg))
        /\ selectedTemplate' = lastOp'.arg
        /\ currentPoints' = currentPoints ]_vars

\* C22 witness: a pyramid template was inserted after a cube template
C22_PyramidAfterCube ==
  /\ lastOp = [ op |-> "insertTemplate", arg |-> "pyramid" ]
  /\ paths = << TEMPLATES.CUBE, TEMPLATES.PYRAMID >>
  /\ selectedTemplate = "pyramid"

\* C23: undo removes exactly the most recently committed curve and keeps
\* the others in order; on an empty list it changes nothing; it never
\* changes confirmedKind, which only clear or the commit of a template
\* changes.
C23_Undo ==
  /\ [][ lastOp'.op = "undo" =>
           /\ WithoutLast(paths', paths)
           /\ selectedTemplate' = selectedTemplate
           /\ UNCHANGED << currentPoints, isSolving, showRecognition,
                           completeTimers >> ]_vars
  /\ [][ selectedTemplate' # selectedTemplate =>
           lastOp'.op \in { "clear", "insertTemplate" } ]_vars

\* C23 witness: the only curve, a cube template, was undone and the canvas
\* is still tagged cube
C23_TemplateUndoneKindKept ==
  /\ lastOp.op = "undo"
  /\ paths = << >>
  /\ selectedTemplate = "cube"
  /\ ~isSolving

\* C24: clear, from any canvas state, leaves the committed list empty and
\* confirmedKind default; drawing and committing a stroke does not change
\* confirmedKind, and analysis of a canvas with a curve and confirmedKind
\* default shows the confirmation step and sets no emission.
C24_Clear ==
  /\ [](lastOp.op = "clear" =>
           paths = << >> /\ selectedTemplate = "default")
  /\ [][ lastOp'.op \in { "press", "move", "release" } =>
           selectedTemplate' = selectedTemplate ]_vars
  /\ [][ (lastOp'.op = "analyze" /\ selectedTemplate = "default") =>
           /\ showRecognition'
           /\ completeTimers' = completeTimers
           /\ emitted' = emitted ]_vars

\* C24 witness: a canvas tagged with a template kind, with an analysis
\* running and a stroke in progress, was cleared
C24_ClearedWhileSolving ==
  /\ lastOp.op = "clear"
  /\ isSolving
  /\ currentPoints # << >>
  /\ paths = << >>
  /\ selectedTemplate = "default"

\* C25: release with a stroke of at least 2 points appends exactly one
\* curve, the smoothing of exactly those points, at the end of the
\* committed list, and that curve is a free-hand one; with fewer than 2
\* points the committed list is unchanged; in both cases the in-progress
\* stroke is empty afterwards (the pointer leaving the canvas runs the
\* same handler).
C25_Release ==
  /\ [][ lastOp'.op = "release" =>
           /\ IF Len(currentPoints) >= 2
              THEN /\ Len(paths') = Len(paths) + 1
                   /\ SubSeq(paths', 1, Len(paths)) = paths
                   /\ paths'[Len(paths')] = getSmoothedPath(currentPoints)
                   /\ IsFreeHandCurve(paths'[Len(paths')])
              ELSE paths' = paths
           /\ currentPoints' = << >> ]_vars
  /\ [](lastOp.op = "release" => currentPoints = << >>)

\* C25 witness: a stroke of exactly two points was committed after a
\* template curve
C25_TwoPointStrokeCommitted ==
  /\ lastOp.op = "release"
  /\ paths = << TEMPLATES.CUBE, "M 0 0 L 0 4" >>
  /\ currentPoints = << >>

\* the step is a move event delivering point p with e.buttons = buttons
MoveStep(p, buttons) ==
  /\ SketchControlsReachable
  /\ handlePointerMove(p, buttons)
  /\ lastOp'.op = "move"

\* the step is a press event at point p
PressStep(p) ==
  /\ SketchControlsReachable
  /\ handlePointerDown(p)
  /\ lastOp'.op = "press"

\* the last recorded point of the in-progress stroke
LastPoint == currentPoints[Len(currentPoints)]

\* C26 as stated: a move appends its point only while a stroke is in
\* progress and only if the distance from the last recorded point exceeds
\* 4; a move closer than 4 to the last recorded point never grows the
\* stroke, and a move when no stroke is in progress never creates one.
C26_MoveOnlyInStrokeBeyondThreshold ==
  [][ \A p \in Points, buttons \in Buttons :
        MoveStep(p, buttons) =>
          /\ currentPoints' # currentPoints =>
               /\ currentPoints # << >>
               /\ DistSquared(LastPoint, p) > THRESHOLD * THRESHOLD
               /\ currentPoints' = Append(currentPoints, p)
          /\ (currentPoints # << >>
                /\ DistSquared(LastPoint, p) < THRESHOLD * THRESHOLD)
               => Len(currentPoints') = Len(currentPoints)
          /\ currentPoints = << >> => currentPoints' = << >> ]_vars

\* C26 amended: a move is accepted only while the primary button is held
\* and no analysis is running; it then appends its point if no point is
\* recorded yet or if the distance from the last recorded point is at
\* least 4, and changes nothing otherwise: a move closer than 4 to the
\* last recorded point never grows the stroke, a move at exactly 4 does,
\* and a move with the button held and no recorded point starts a stroke
\* holding that point.  Committed curves and confirmedKind are unchanged.
C26_MoveWhileButtonHeld ==
  [][ \A p \in Points, buttons \in Buttons :
        MoveStep(p, buttons) =>
          /\ currentPoints' =
               IF /\ buttons = 1
                  /\ ~isSolving
                  /\ \/ currentPoints = << >>
                     \/ DistSquared(LastPoint, p) >= THRESHOLD * THRESHOLD
               THEN Append(currentPoints, p)
               ELSE currentPoints
          /\ paths' = paths
          /\ selectedTemplate' = selectedTemplate ]_vars

\* C26 witness: the stroke holds two points exactly 4 apart, the second
\* appended by a move
C26_MoveAtThresholdAppended ==
  /\ lastOp.op = "move"
  /\ currentPoints = << <<0, 0>>, <<0, 4>> >>

\* C27 as stated: press starts a stroke holding exactly its point when no
\* stroke is in progress and leaves the in-progress stroke unchanged when
\* one is being drawn; committed curves and confirmedKind are unchanged.
C27_PressKeepsStrokeInProgress ==
  [][ \A p \in Points :
        PressStep(p) =>
          /\ currentPoints' = IF currentPoints = << >> THEN << p >>
                                                      ELSE currentPoints
          /\ paths' = paths
          /\ selectedTemplate' = selectedTemplate ]_vars

\* C27 amended: press starts a stroke holding exactly its point, in place
\* of any stroke in progress, unless an analysis is running, in which
\* case the in-progress stroke is unchanged; committed curves and
\* confirmedKind are unchanged.
C27_PressRestartsStroke ==
  [][ \A p \in Points :
        PressStep(p) =>
          /\ currentPoints' = IF isSolving THEN currentPoints ELSE << p >>
          /\ paths' = paths
          /\ selectedTemplate' = selectedTemplate ]_vars

\* C27 witness: a press while an analysis is running left a stroke of two
\* points as it was
C27_PressRefusedWhileSolving ==
  /\ lastOp.op = "press"
  /\ isSolving
  /\ Len(currentPoints) = 2

(***************************************************************************)
(* Properties of the steps of a turn.                                      *)
(***************************************************************************)
\* the number of running calls still waiting for their retrieval timer
NumRetrieving ==
  Cardinality({ t \in 1..Len(turns) : turns[t].pc = "retrieving" })

\* C28: within every accepted turn the user message is in the transcript
\* from the send on, the session shows Retrieving until the retrieval
\* delay of the turn ends and Streaming from then until the turn ends, and
\* at the end of the delay exactly one prompt is sent, equal to
\* "[Context: " + retrieve(userText, kind) + "] User Question: " +
\* userText for the text captured at the send and the kind of the session.
C28_TurnStepOrder ==
  /\ [](\A t \in 1..Len(turns) :
          /\ \E i \in 1..Len(messages) :
               messages[i] = [ role |-> "user", text |-> turns[t].userMsg ]
          /\ turns[t].pc = "retrieving" => isRetrieving /\ ~isTyping
          /\ turns[t].pc \in { "awaiting", "streaming" }
               => isTyping /\ ~isRetrieving)
  /\ [][ sentPrompts' # sentPrompts =>
           \E t \in 1..Len(turns) :
             /\ turns[t].pc = "retrieving"
             /\ turns'[t].pc = "awaiting"
             /\ sentPrompts' =
                  Append(sentPrompts,
                         "[Context: "
                           \o retrieveContext(turns[t].userMsg,
                                              problemContext.type)
                           \o "] User Question: " \o turns[t].userMsg) ]_vars
  /\ [](Len(sentPrompts) + NumRetrieving = nTurns)

\* C30: the retrieving indicator and the streaming indicator are never
\* both set, and both are clear exactly when no turn is in flight.
C30_IndicatorsExclusive ==
  /\ ~(isRetrieving /\ isTyping)
  /\ Ready <=> turns = << >>

(***************************************************************************)
(* Properties of the stroke smoother.                                      *)
(***************************************************************************)
RECURSIVE SplitOn(_, _)
\* the parts of a text between the occurrences of a separator character
SplitOn(s, sep) ==
  IF ~Includes(s, sep) THEN << s >>
  ELSE LET i == CHOOSE j \in 1..Len(s) :
                  /\ SubSeq(s, j, j) = sep
                  /\ \A k \in 1..(j - 1) : SubSeq(s, k, k) # sep
       IN  << SubSeq(s, 1, i - 1) >>
             \o SplitOn(SubSeq(s, i + 1, Len(s)), sep)

\* a whole coordinate written with two decimals
Whole(n) == NatToString(n) \o ".00"

\* the mean of two whole coordinates written with two decimals
Mid(a, b) ==
  NatToString((a + b) \div 2) \o (IF (a + b) % 2 = 0 THEN ".00" ELSE ".50")

\* the curve d is the one the smoother is to return for the points ps
SmoothedAs(d, ps) ==
  LET n == Len(ps)
      tokens == SplitOn(d, " ")
  IN  IF n = 0 THEN d = ""
      ELSE IF n = 1
      THEN tokens = << "M", NatToString(ps[1][1]), NatToString(ps[1][2]) >>
      ELSE IF n = 2
      THEN tokens = << "M", NatToString(ps[1][1]), NatToString(ps[1][2]),
                       "L", NatToString(ps[2][1]), NatToString(ps[2][2]) >>
      ELSE /\ Len(tokens) = 3 + 5 * (n - 2) + 3
           /\ SubSeq(tokens, 1, 3) = << "M", Whole(ps[1][1]), Whole(ps[1][2]) >>
           /\ \A i \in 2..(n - 1) :
                SubSeq(tokens, 5 * i - 6, 5 * i - 2) =
                  << "Q", Whole(ps[i][1]), Whole(ps[i][2]),
                     Mid(ps[i][1], ps[i + 1][1]),
                     Mid(ps[i][2], ps[i + 1][2]) >>
           /\ SubSeq(tokens, Len(tokens) - 2, Len(tokens)) =
                << "L", Whole(ps[n][1]), Whole(ps[n][2]) >>

\* C29: for 0 points the curve is empty; for 1 or 2 points it is a
\* straight chain through exactly those points in order; for n >= 3
\* points it starts at the first point, has exactly one quadratic segment
\* per interior point, in index order, with that point as control point
\* and the midpoint of it and the next point as end point, and ends with a
\* straight segment to the last point.
C29_Smoother ==
  lastOp.op = "smooth" =>
    /\ Len(paths) = 1
    /\ SmoothedAs(paths[1], currentPoints)

\* C29 witness: the curve of a stroke of four points with a midpoint at a
\* half coordinate
C29_FourPointsHalfMidpoint ==
  /\ lastOp.op = "smooth"
  /\ currentPoints = << <<0, 0>>, <<1, 2>>, <<10, 5>>, <<0, 0>> >>
  /\ paths = << "M 0.00 0.00 Q 1.00 2.00 5.50 3.50 Q 10.00 5.00 5.00 2.50 L 0.00 0.00" >>

====
